---- MODULE Spec2Model ----
(***************************************************************************)
(* Present-proof v1.0 PresentationManager                                  *)
(* (aries_cloudagent/protocols/present_proof/v1_0/manager.py).             *)
(*                                                                         *)
(* The persisted exchange records are the sequence `store`; a record's     *)
(* storage id is its index.  An operation that takes a record argument is  *)
(* handed the record as currently persisted (its caller retrieved it).     *)
(* Optional values are records carrying a `present` flag so that every     *)
(* value of a field has one shape; an absent dictionary key of a           *)
(* non-revocation window is Absent (-1).                                   *)
(***************************************************************************)
EXTENDS Integers, Sequences, FiniteSets, TLC

VARIABLES
    store,      \* persisted V10PresentationExchange records, by storage id
    tasks,      \* in-flight receive_presentation / receive_presentation_ack
    tails,      \* registry ids whose tails file is present locally
    lastOp      \* history: the operation that completed last

vars == <<store, tasks, tails, lastOp>>

----------------------------------------------------------------------------
(* Bounds of the model *)

MaxRecords == 1     \* persisted records
MaxTasks == 2       \* concurrently in-flight inbound messages
MaxTime == 2        \* the clock reads 1..MaxTime
MaxDeliveries == 2  \* records created when messages are delivered again

----------------------------------------------------------------------------
(* V10PresentationExchange constants *)

INITIATOR_SELF == "self"
INITIATOR_EXTERNAL == "external"
ROLE_PROVER == "prover"
ROLE_VERIFIER == "verifier"
STATE_PROPOSAL_SENT == "proposal_sent"
STATE_PROPOSAL_RECEIVED == "proposal_received"
STATE_REQUEST_SENT == "request_sent"
STATE_REQUEST_RECEIVED == "request_received"
STATE_PRESENTATION_SENT == "presentation_sent"
STATE_PRESENTATION_RECEIVED == "presentation_received"
STATE_VERIFIED == "verified"
STATE_PRESENTATION_ACKED == "presentation_acked"

States ==
    { STATE_PROPOSAL_SENT, STATE_PROPOSAL_RECEIVED, STATE_REQUEST_SENT,
      STATE_REQUEST_RECEIVED, STATE_PRESENTATION_SENT,
      STATE_PRESENTATION_RECEIVED, STATE_VERIFIED, STATE_PRESENTATION_ACKED }

----------------------------------------------------------------------------
(* Values *)

Absent == -1
\* readings of time.time(); the bounds written in proof requests (0 and 1)
\* are not in the future
Times == 1..MaxTime

NoWindow == [present |-> FALSE, from |-> Absent, to |-> Absent]
Window(f, t) == [present |-> TRUE, from |-> f, to |-> t]

NoProposal == [present |-> FALSE, attributes |-> <<>>]
NoRequest ==
    [present |-> FALSE, requested_attributes |-> <<>>,
     requested_predicates |-> <<>>, non_revoked |-> NoWindow]
NoPresentation == [present |-> FALSE, identifiers |-> <<>>, revealed_attrs |-> <<>>]

Threads == {"t1"}
Conns == {"conn1"}
NoConn == "none"

Referents == <<"r1", "r2", "r3">>

\* an attribute specification of a presentation preview
AttrSpec(d, n, v) == [cred_def_id |-> d, name |-> n, value |-> v]

\* the serialized proposals a peer or the local API may supply
Proposals ==
    { [present |-> TRUE, attributes |-> <<AttrSpec("D1", "age", "21")>>] }

\* requested attribute / predicate entry of an indy proof request
ReqAttr(n, w) == [name |-> n, non_revoked |-> w]

\* a dictionary with the keys Referents[1..n]
DictOf(seq) == [r \in {Referents[i] : i \in 1..Len(seq)} |->
                  seq[CHOOSE i \in 1..Len(seq) : Referents[i] = r]]

\* proof requests a verifier may issue without a proposal
FreeRequests ==
    { [present |-> TRUE,
       requested_attributes |-> DictOf(<<ReqAttr("age", NoWindow)>>),
       requested_predicates |-> <<>>,
       non_revoked |-> Window(0, Absent)] }

Record(conn, thid, init, role, state, proposal, request) ==
    [connection_id |-> conn, thread_id |-> thid, initiator |-> init,
     role |-> role, state |-> state,
     presentation_proposal_dict |-> proposal,
     presentation_request |-> request,
     presentation |-> NoPresentation,
     verified |-> "None"]

NoRecord == Record(NoConn, "none", "none", "none", "none", NoProposal, NoRequest)

----------------------------------------------------------------------------
(* Record store: BaseRecord.save and retrieve_by_tag_filter *)

\* save of a record that has no storage id yet: add_record
SaveNew(rec) == Append(store, rec)

\* save of a record that has a storage id: the stored value is replaced
SaveAt(id, rec) == [store EXCEPT ![id] = rec]

\* ids of the records matching the tag filter and the post filter
Matching(thid, connFilter) ==
    { i \in DOMAIN store :
        /\ store[i].thread_id = thid
        /\ connFilter # NoConn => store[i].connection_id = connFilter }

----------------------------------------------------------------------------
(* History of the last completed operation *)

\* a call made by an operation, or a message it hands back
Ev(call, id) ==
    [call |-> call, id |-> id, arg |-> "none", from |-> Absent, to |-> Absent, ok |-> TRUE]
EvArg(call, id, arg) == [Ev(call, id) EXCEPT !.arg = arg]
EvDelta(id, f, t) == [Ev("get_revoc_reg_delta", id) EXCEPT !.from = f, !.to = t]

NoRequested == [requested_attributes |-> <<>>, requested_predicates |-> <<>>]

NoMessage == [thid |-> "none", id |-> "none"]

\* inputs and intermediate results of the operation, for the record
NoInput ==
    [requested |-> NoRequested, now |-> Absent, responder |-> FALSE,
     presentation |-> NoPresentation, non_revoked |-> NoWindow,
     referents |-> <<>>, revocation_states |-> {}, returned |-> NoRecord,
     message |-> NoMessage]

OpIn(name, rid, result, trace, input) ==
    [op |-> name, rid |-> rid, result |-> result, trace |-> trace, input |-> input]

Op(name, rid, result, trace) == OpIn(name, rid, result, trace, NoInput)

\* an operation that returned the record rec to its caller
OpRet(name, rid, trace, rec) ==
    OpIn(name, rid, "ok", trace, [NoInput EXCEPT !.returned = rec])

\* an operation that built the record rec from the message msg and returned it
OpMade(name, rid, rec, msg) ==
    OpIn(name, rid, "ok", <<>>, [NoInput EXCEPT !.returned = rec, !.message = msg])

NoOp == Op("init", 0, "ok", <<>>)

Idle == [pc |-> "idle", op |-> "none", rid |-> 0, rec |-> NoRecord,
         presentation |-> NoPresentation]

----------------------------------------------------------------------------
(* Collaborators outside manager.py *)

\* AgentMessage._thread_id: the thid of the ~thread decorator when there is
\* one, else the message's own id
_thread_id(msg) == IF msg.thid # "none" THEN msg.thid ELSE msg.id

\* PresentationPreview.indy_proof_request: one requested attribute per
\* attribute of the preview, none of them with a non-revocation window
indy_proof_request(proposal) ==
    [present |-> TRUE,
     requested_attributes |->
        DictOf([i \in 1..Len(proposal.attributes) |->
                  ReqAttr(proposal.attributes[i].name, NoWindow)]),
     requested_predicates |-> <<>>,
     non_revoked |-> NoWindow]

\* PresentationPreview.has_attr_spec
has_attr_spec(proposal, d, n, v) ==
    \E i \in 1..Len(proposal.attributes) :
        proposal.attributes[i] = AttrSpec(d, n, v)

----------------------------------------------------------------------------
(* Inputs of the protocol operations *)

Identifier(s, d) == [schema_id |-> s, cred_def_id |-> d]
Revealed(r, v, i) == [reft |-> r, raw |-> v, sub_proof_index |-> i]
Proof(ids, revealed) ==
    [present |-> TRUE, identifiers |-> ids, revealed_attrs |-> revealed]

\* indy proofs a prover may send: matching the proposal, with a substituted
\* value, revealing a referent the request does not name before a
\* substituted value, and revealing no attribute at all
InboundProofs ==
    { Proof(<<Identifier("S1", "D1")>>, <<>>),
      Proof(<<Identifier("S1", "D1")>>, <<Revealed("r1", "21", 0)>>),
      Proof(<<Identifier("S1", "D1")>>, <<Revealed("r1", "22", 0)>>),
      Proof(<<Identifier("S1", "D1")>>,
            <<Revealed("r3", "21", 0), Revealed("r1", "22", 0)>>) }

ProposalMessages == [thid : Threads, id : {"m1"}, proposal : Proposals]
RequestMessages == [thid : Threads, id : {"m2"}, request : FreeRequests]

----------------------------------------------------------------------------
(* Record-creating operations *)

create_exchange_for_proposal(conn, msg, saveOk) ==
    LET rec == Record(conn, _thread_id(msg), INITIATOR_SELF, ROLE_PROVER,
                      STATE_PROPOSAL_SENT, msg.proposal, NoRequest)
    IN  /\ IF saveOk
             THEN /\ store' = SaveNew(rec)
                  /\ lastOp' = OpMade("create_exchange_for_proposal", Len(store) + 1, rec, msg)
             ELSE /\ store' = store
                  /\ lastOp' = Op("create_exchange_for_proposal", 0, "StorageError", <<>>)
        /\ UNCHANGED <<tasks, tails>>

\* receive_proposal with the role of create_exchange_for_proposal
receive_proposal_as_prover(conn, msg, saveOk) ==
    LET rec == Record(conn, _thread_id(msg), INITIATOR_EXTERNAL, ROLE_PROVER,
                      STATE_PROPOSAL_RECEIVED, msg.proposal, NoRequest)
    IN  /\ IF saveOk
             THEN /\ store' = SaveNew(rec)
                  /\ lastOp' = OpMade("receive_proposal", Len(store) + 1, rec, msg)
             ELSE /\ store' = store
                  /\ lastOp' = Op("receive_proposal", 0, "StorageError", <<>>)
        /\ UNCHANGED <<tasks, tails>>

receive_proposal(conn, msg, saveOk) ==
    LET rec == Record(conn, _thread_id(msg), INITIATOR_EXTERNAL, ROLE_VERIFIER,
                      STATE_PROPOSAL_RECEIVED, msg.proposal, NoRequest)
    IN  /\ IF saveOk
             THEN /\ store' = SaveNew(rec)
                  /\ lastOp' = OpMade("receive_proposal", Len(store) + 1, rec, msg)
             ELSE /\ store' = store
                  /\ lastOp' = Op("receive_proposal", 0, "StorageError", <<>>)
        /\ UNCHANGED <<tasks, tails>>

\* create_exchange_for_request with the state of create_exchange_for_proposal
create_exchange_for_request_as_proposal(conn, msg, saveOk) ==
    LET rec == Record(conn, _thread_id(msg), INITIATOR_SELF, ROLE_VERIFIER,
                      STATE_PROPOSAL_SENT, NoProposal, msg.request)
    IN  /\ IF saveOk
             THEN /\ store' = SaveNew(rec)
                  /\ lastOp' = OpMade("create_exchange_for_request", Len(store) + 1, rec, msg)
             ELSE /\ store' = store
                  /\ lastOp' = Op("create_exchange_for_request", 0, "StorageError", <<>>)
        /\ UNCHANGED <<tasks, tails>>

create_exchange_for_request(conn, msg, saveOk) ==
    LET rec == Record(conn, _thread_id(msg), INITIATOR_SELF, ROLE_VERIFIER,
                      STATE_REQUEST_SENT, NoProposal, msg.request)
    IN  /\ IF saveOk
             THEN /\ store' = SaveNew(rec)
                  /\ lastOp' = OpMade("create_exchange_for_request", Len(store) + 1, rec, msg)
             ELSE /\ store' = store
                  /\ lastOp' = Op("create_exchange_for_request", 0, "StorageError", <<>>)
        /\ UNCHANGED <<tasks, tails>>

----------------------------------------------------------------------------
(* Transitions on a record handed in by the caller *)

\* the request message left without a thread decorator, so that the thread
\* id read back from it is the message's own id
BoundRequestRecordUnthreaded(rec) ==
    LET msg == [thid |-> "none", id |-> "m3"]
    IN  [rec EXCEPT !.thread_id = _thread_id(msg),
                    !.state = STATE_REQUEST_SENT,
                    !.presentation_request =
                        indy_proof_request(rec.presentation_proposal_dict)]

\* the request message is threaded to the record's thread id, and the
\* record's thread id is then read back from the message
BoundRequestRecord(rec) ==
    LET msg == [thid |-> rec.thread_id, id |-> "m3"]
    IN  [rec EXCEPT !.thread_id = _thread_id(msg),
                    !.state = STATE_REQUEST_SENT,
                    !.presentation_request =
                        indy_proof_request(rec.presentation_proposal_dict)]

\* PresentationProposal.deserialize of a record without a proposal fails
\* before anything is assigned
BoundRequestError(rec) ==
    IF rec.presentation_proposal_dict.present THEN "ok" ELSE "ProtocolError"

\* create_bound_request with the state assigned and the record saved before
\* the proposal is deserialized
create_bound_request_save_first(id, saveOk) ==
    LET rec == store[id]
        err == BoundRequestError(rec)
    IN  /\ id \in DOMAIN store
        /\ IF ~saveOk
             THEN /\ store' = store
                  /\ lastOp' = Op("create_bound_request", id, "StorageError", <<>>)
             ELSE IF err # "ok"
               THEN /\ store' = SaveAt(id, [rec EXCEPT !.state = STATE_REQUEST_SENT])
                    /\ lastOp' = Op("create_bound_request", id, err, <<>>)
               ELSE /\ store' = SaveAt(id, BoundRequestRecord(rec))
                    /\ lastOp' = OpRet("create_bound_request", id,
                                       <<Ev("presentation_request_message", rec.thread_id)>>,
                                       BoundRequestRecord(rec))
        /\ UNCHANGED <<tasks, tails>>

create_bound_request(id, saveOk) ==
    LET rec == store[id]
        err == BoundRequestError(rec)
    IN  /\ id \in DOMAIN store
        /\ IF err # "ok"
             THEN /\ store' = store
                  /\ lastOp' = Op("create_bound_request", id, err, <<>>)
             ELSE IF saveOk
               THEN /\ store' = SaveAt(id, BoundRequestRecord(rec))
                    /\ lastOp' = OpRet("create_bound_request", id,
                                       <<Ev("presentation_request_message", rec.thread_id)>>,
                                       BoundRequestRecord(rec))
               ELSE /\ store' = store
                    /\ lastOp' = Op("create_bound_request", id,
                                    "StorageError", <<>>)
        /\ UNCHANGED <<tasks, tails>>

ReceiveRequestRecord(rec) == [rec EXCEPT !.state = STATE_REQUEST_RECEIVED]

\* receive_request saving the record before the state is assigned
receive_request_save_first(id, saveOk) ==
    LET rec == store[id]
    IN  /\ id \in DOMAIN store
        /\ IF saveOk
             THEN /\ store' = SaveAt(id, rec)
                  /\ lastOp' = OpRet("receive_request", id, <<>>, ReceiveRequestRecord(rec))
             ELSE /\ store' = store
                  /\ lastOp' = Op("receive_request", id, "StorageError", <<>>)
        /\ UNCHANGED <<tasks, tails>>

receive_request(id, saveOk) ==
    LET rec == store[id]
    IN  /\ id \in DOMAIN store
        /\ IF saveOk
             THEN /\ store' = SaveAt(id, ReceiveRequestRecord(rec))
                  /\ lastOp' = OpRet("receive_request", id, <<>>, ReceiveRequestRecord(rec))
             ELSE /\ store' = store
                  /\ lastOp' = Op("receive_request", id, "StorageError", <<>>)
        /\ UNCHANGED <<tasks, tails>>

----------------------------------------------------------------------------
(* Inbound presentation and acknowledgement: retrieve by thread, then save. *)
(* The retrieval and the save are awaited, so two inbound messages of one   *)
(* thread interleave between them.                                          *)

\* the bait-and-switch loop over requested_proof.revealed_attrs, from entry i
RECURSIVE CheckRevealed(_, _, _)
CheckRevealed(rec, pres, i) ==
    IF i > Len(pres.revealed_attrs) THEN "ok"
    ELSE
      LET a == pres.revealed_attrs[i]
          req == rec.presentation_request
      IN  IF ~req.present THEN "TypeError"
          ELSE IF a.reft \notin DOMAIN req.requested_attributes THEN "KeyError"
          ELSE IF a.sub_proof_index >= Len(pres.identifiers) THEN "IndexError"
          ELSE IF ~has_attr_spec(rec.presentation_proposal_dict,
                                 pres.identifiers[a.sub_proof_index + 1].cred_def_id,
                                 req.requested_attributes[a.reft].name,
                                 a.raw)
            THEN "PresentationManagerError"
          ELSE CheckRevealed(rec, pres, i + 1)

BaitAndSwitch(rec, pres) ==
    IF rec.presentation_proposal_dict.present
      THEN CheckRevealed(rec, pres, 1)
      ELSE "ok"

\* the record with the new presentation marked as not verified
ReceivedPresentationRecordUnverified(rec, pres) ==
    [rec EXCEPT !.presentation = pres, !.state = STATE_PRESENTATION_RECEIVED,
                !.verified = "false"]

ReceivedPresentationRecord(rec, pres) ==
    [rec EXCEPT !.presentation = pres, !.state = STATE_PRESENTATION_RECEIVED]

AckedRecord(rec) == [rec EXCEPT !.state = STATE_PRESENTATION_ACKED]

RetrieveError(ids) ==
    IF ids = {} THEN "StorageNotFoundError" ELSE "StorageDuplicateError"

Retrieved(op, id, pres) ==
    [pc |-> "retrieved", op |-> op, rid |-> id, rec |-> store[id],
     presentation |-> pres]

\* the part of receive_presentation after the retrieval
ReceivePresentation(rec, pres, saveOk) ==
    LET err == BaitAndSwitch(rec, pres)
    IN  IF err # "ok" THEN [err |-> err, rec |-> rec, returned |-> NoRecord]
        ELSE IF ~saveOk THEN [err |-> "StorageError", rec |-> rec, returned |-> NoRecord]
        ELSE [err |-> "ok", rec |-> ReceivedPresentationRecord(rec, pres),
              returned |-> ReceivedPresentationRecord(rec, pres)]

\* the part of receive_presentation_ack after the retrieval
ReceivePresentationAck(rec, saveOk) ==
    IF ~saveOk THEN [err |-> "StorageError", rec |-> rec, returned |-> NoRecord]
    ELSE [err |-> "ok", rec |-> AckedRecord(rec), returned |-> AckedRecord(rec)]

\* the whole handler, run without another unit of work in between
receive_presentation(thid, pres, connFilter, saveOk) ==
    LET ids == Matching(thid, connFilter)
        id == CHOOSE i \in ids : TRUE
        out == ReceivePresentation(store[id], pres, saveOk)
    IN  /\ IF Cardinality(ids) = 1
             THEN /\ store' = IF out.err = "ok" THEN SaveAt(id, out.rec) ELSE store
                  /\ lastOp' = OpIn("receive_presentation", id, out.err, <<>>,
                                    [NoInput EXCEPT !.presentation = pres,
                                                    !.returned = out.returned])
             ELSE /\ store' = store
                  /\ lastOp' = Op("receive_presentation", 0, RetrieveError(ids), <<>>)
        /\ UNCHANGED <<tasks, tails>>

receive_presentation_ack(thid, conn, saveOk) ==
    LET ids == Matching(thid, conn)
        id == CHOOSE i \in ids : TRUE
        out == ReceivePresentationAck(store[id], saveOk)
    IN  /\ IF Cardinality(ids) = 1
             THEN /\ store' = IF out.err = "ok" THEN SaveAt(id, out.rec) ELSE store
                  /\ lastOp' = OpIn("receive_presentation_ack", id, out.err, <<>>,
                                    [NoInput EXCEPT !.returned = out.returned])
             ELSE /\ store' = store
                  /\ lastOp' = Op("receive_presentation_ack", 0, RetrieveError(ids), <<>>)
        /\ UNCHANGED <<tasks, tails>>

\* the same handlers as two steps each, the retrieval and the rest
receive_presentation_retrieve(t, thid, pres, connFilter) ==
    LET ids == Matching(thid, connFilter)
    IN  /\ tasks[t].pc = "idle"
        /\ IF Cardinality(ids) = 1
             THEN /\ tasks' = [tasks EXCEPT ![t] =
                        Retrieved("receive_presentation", CHOOSE i \in ids : TRUE, pres)]
                  /\ lastOp' = lastOp
             ELSE /\ tasks' = tasks
                  /\ lastOp' = Op("receive_presentation", 0, RetrieveError(ids), <<>>)
        /\ UNCHANGED <<store, tails>>

receive_presentation_save(t, saveOk) ==
    LET task == tasks[t]
        out == ReceivePresentation(task.rec, task.presentation, saveOk)
    IN  /\ task.pc = "retrieved"
        /\ task.op = "receive_presentation"
        /\ store' = IF out.err = "ok" THEN SaveAt(task.rid, out.rec) ELSE store
        /\ lastOp' = OpIn("receive_presentation", task.rid, out.err, <<>>,
                          [NoInput EXCEPT !.presentation = task.presentation,
                                          !.returned = out.returned])
        /\ tasks' = [tasks EXCEPT ![t] = Idle]
        /\ UNCHANGED tails

receive_presentation_ack_retrieve(t, thid, conn) ==
    LET ids == Matching(thid, conn)
    IN  /\ tasks[t].pc = "idle"
        /\ IF Cardinality(ids) = 1
             THEN /\ tasks' = [tasks EXCEPT ![t] =
                        Retrieved("receive_presentation_ack", CHOOSE i \in ids : TRUE,
                                  NoPresentation)]
                  /\ lastOp' = lastOp
             ELSE /\ tasks' = tasks
                  /\ lastOp' = Op("receive_presentation_ack", 0, RetrieveError(ids), <<>>)
        /\ UNCHANGED <<store, tails>>

receive_presentation_ack_save(t, saveOk) ==
    LET task == tasks[t]
        out == ReceivePresentationAck(task.rec, saveOk)
    IN  /\ task.pc = "retrieved"
        /\ task.op = "receive_presentation_ack"
        /\ store' = IF out.err = "ok" THEN SaveAt(task.rid, out.rec) ELSE store
        /\ lastOp' = OpIn("receive_presentation_ack", task.rid, out.err, <<>>,
                          [NoInput EXCEPT !.returned = out.returned])
        /\ tasks' = [tasks EXCEPT ![t] = Idle]
        /\ UNCHANGED tails

----------------------------------------------------------------------------
(* Calls to collaborators (holder, ledger, verifier, storage, responder,    *)
(* revocation registry) made by one operation.  A run carries the number of *)
(* calls made, the calls in order, and the error that ended it; the call    *)
(* numbered failAt raises.                                                  *)


Run0(failAt) == [n |-> 0, err |-> "ok", trace |-> <<>>, failAt |-> failAt, open |-> FALSE]

\* an awaited call to a collaborator
Ext(st, ev) ==
    IF st.err # "ok" THEN st
    ELSE IF st.n + 1 = st.failAt
      THEN [st EXCEPT !.n = @ + 1, !.err = "ExternalServiceError",
                      !.trace = Append(@, [ev EXCEPT !.ok = FALSE])]
      ELSE [st EXCEPT !.n = @ + 1, !.trace = Append(@, ev)]

\* an exception raised by the manager's own code
Raise(st, err) == IF st.err # "ok" THEN st ELSE [st EXCEPT !.err = err]

\* `async with ledger:` entry
LedgerOpen(st) ==
    LET s == Ext(st, Ev("ledger.open", "ledger"))
    IN  IF st.err = "ok" /\ s.err = "ok" THEN [s EXCEPT !.open = TRUE] ELSE s

\* the session closed by a statement after the block, which is skipped when
\* the block raised
LedgerCloseOnSuccess(st) ==
    IF st.open /\ st.err = "ok"
      THEN [st EXCEPT !.open = FALSE, !.trace = Append(@, Ev("ledger.close", "ledger"))]
      ELSE st

\* `async with ledger:` exit: runs when the block was entered, also when the
\* block raised
LedgerClose(st) ==
    IF st.open
      THEN [st EXCEPT !.open = FALSE, !.trace = Append(@, Ev("ledger.close", "ledger"))]
      ELSE st

RECURSIVE Fold(_, _, _, _)
\* st after Step(st, seq[i]) for i = from..Len(seq), in order; the state
\* reached by one pass is computed before the next pass starts
Fold(Step(_, _), st, seq, from) ==
    IF from > Len(seq) THEN st
    ELSE CHOOSE out \in { Fold(Step, Step(s, seq[from]), seq, from + 1) : s \in {st} } : TRUE

----------------------------------------------------------------------------
(* verify_presentation and send_presentation_ack *)

\* json.dumps of the verifier's boolean
json_dumps(b) == IF b THEN "true" ELSE "false"

VerifySchemaStep(st, identifier) == Ext(st, Ev("get_schema", identifier.schema_id))
VerifyCredDefStep(st, identifier) ==
    Ext(st, Ev("get_credential_definition", identifier.cred_def_id))

\* responder.send_reply of an ack threaded to the record's thread id, or a
\* warning when no responder is configured
\* send_presentation_ack with the responder injected as required
send_presentation_ack_required(st, rec, hasResponder) ==
    IF hasResponder THEN Ext(st, Ev("send_reply", rec.thread_id))
    ELSE Raise(st, "InjectionError")

send_presentation_ack(st, rec, hasResponder) ==
    IF hasResponder THEN Ext(st, Ev("send_reply", rec.thread_id)) ELSE st

\* the record with the state set and the verifier's result dropped
VerifiedRecordStateOnly(rec, verdict) == [rec EXCEPT !.state = STATE_VERIFIED]

VerifiedRecord(rec, verdict) ==
    [rec EXCEPT !.verified = json_dumps(verdict), !.state = STATE_VERIFIED]

\* verify_presentation with the acknowledgement sent before the save
VerifyPhasesAckFirst ==
    << "indy_proof", "ledger_open", "schemas", "credential_definitions",
       "ledger_close", "verify_presentation", "send_presentation_ack", "save" >>

\* the statements of verify_presentation, in order
VerifyPhases ==
    << "indy_proof", "ledger_open", "schemas", "credential_definitions",
       "ledger_close", "verify_presentation", "save", "send_presentation_ack" >>

\* one statement of verify_presentation; v holds the call's arguments and
\* its run
VerifyStep(v, phase) ==
    CASE phase = "indy_proof" ->
           IF v.rec.presentation.present THEN v
           ELSE [v EXCEPT !.run = Raise(@, "TypeError")]
      [] phase = "ledger_open" -> [v EXCEPT !.run = LedgerOpen(@)]
      [] phase = "schemas" ->
           [v EXCEPT !.run = Fold(VerifySchemaStep, @, v.rec.presentation.identifiers, 1)]
      [] phase = "credential_definitions" ->
           [v EXCEPT !.run = Fold(VerifyCredDefStep, @, v.rec.presentation.identifiers, 1)]
      [] phase = "ledger_close" -> [v EXCEPT !.run = LedgerClose(@)]
      [] phase = "verify_presentation" ->
           [v EXCEPT !.run = Ext(@, Ev("verify_presentation", json_dumps(v.verdict)))]
      [] phase = "save" ->
           [v EXCEPT !.run = Ext(@, Ev("save", STATE_VERIFIED)),
                     !.saved = v.run.err = "ok" /\ v.run.n + 1 # v.run.failAt]
      [] OTHER -> [v EXCEPT !.run = send_presentation_ack(@, v.rec, v.responder)]

VerifyRun(rec, failAt, hasResponder, verdict) ==
    Fold(VerifyStep,
         [run |-> Run0(failAt), rec |-> rec, responder |-> hasResponder,
          verdict |-> verdict, saved |-> FALSE],
         VerifyPhases, 1)

verify_presentation(id, failAt, hasResponder, verdict) ==
    /\ id \in DOMAIN store
    /\ \E out \in {VerifyRun(store[id], failAt, hasResponder, verdict)} :
          /\ store' = IF out.saved THEN SaveAt(id, VerifiedRecord(out.rec, verdict))
                                   ELSE store
          /\ lastOp' = OpIn("verify_presentation", id, out.run.err, out.run.trace,
                            [NoInput EXCEPT
                               !.responder = hasResponder,
                               !.returned = IF out.run.err = "ok"
                                              THEN VerifiedRecord(out.rec, verdict)
                                              ELSE NoRecord])
    /\ UNCHANGED <<tasks, tails>>

----------------------------------------------------------------------------
(* create_presentation *)

NoReg == "none"

CredIds == {"c1", "c2", "c3", "c4"}

\* holder.get_credential: the credentials of the wallet; c1 and c2 belong to
\* one revocation registry, c3 to none
Wallet ==
    [c \in CredIds |->
       CASE c = "c1" -> [schema_id |-> "S1", cred_def_id |-> "D1",
                         rev_reg_id |-> "R1", cred_rev_id |-> "1", value |-> "21"]
         [] c = "c2" -> [schema_id |-> "S1", cred_def_id |-> "D1",
                         rev_reg_id |-> "R1", cred_rev_id |-> "2", value |-> "22"]
         [] c = "c3" -> [schema_id |-> "S2", cred_def_id |-> "D2",
                         rev_reg_id |-> NoReg, cred_rev_id |-> "none", value |-> "x"]
         [] OTHER    -> [schema_id |-> "S2", cred_def_id |-> "D2",
                         rev_reg_id |-> "R2", cred_rev_id |-> "4", value |-> "x"]]

\* the locals of one create_presentation call
Asm0(rec, requested, now, localTails, failAt) ==
    [run |-> Run0(failAt), rec |-> rec, requested |-> requested, now |-> now,
     requested_referents |-> <<>>,      \* dictionary, in insertion order
     credentials |-> <<>>,              \* dictionary keys, in insertion order
     schemas |-> {}, credential_definitions |-> {}, revocation_registries |-> {},
     non_revoked_timespan |-> rec.presentation_request.non_revoked,
     revoc_reg_deltas |-> <<>>,         \* dictionary, in insertion order
     revocation_states |-> {},
     tails |-> localTails]

Running(a) == a.run.err = "ok"
ARaise(a, err) == [a EXCEPT !.run = Raise(@, err)]
AExt(a, ev) == [a EXCEPT !.run = Ext(@, ev)]

\* d[key] = value on a dictionary kept in insertion order
PutReferent(refs, e) ==
    IF \E i \in 1..Len(refs) : refs[i].referent = e.referent
      THEN [i \in 1..Len(refs) |->
              IF refs[i].referent = e.referent THEN e ELSE refs[i]]
      ELSE Append(refs, e)

Referented(rq, window) ==
    [referent |-> rq.referent, cred_id |-> rq.cred_id, non_revoked |-> window]

\* one pass of the loop over requested_attributes
AttributeStep(a, rq) ==
    LET req == a.rec.presentation_request
    IN  IF ~Running(a) THEN a
        ELSE IF ~req.present THEN ARaise(a, "TypeError")
        ELSE IF rq.referent \notin DOMAIN req.requested_attributes
          THEN ARaise(a, "KeyError")
        ELSE [a EXCEPT !.requested_referents =
                PutReferent(@, Referented(rq,
                    req.requested_attributes[rq.referent].non_revoked))]

\* one pass of the loop over requested_predicates
PredicateStep(a, rq) ==
    LET req == a.rec.presentation_request
    IN  IF ~Running(a) THEN a
        ELSE IF ~req.present THEN ARaise(a, "TypeError")
        ELSE IF rq.referent \notin DOMAIN req.requested_predicates
          THEN ARaise(a, "KeyError")
        ELSE [a EXCEPT !.requested_referents =
                PutReferent(@, Referented(rq,
                    req.requested_predicates[rq.referent].non_revoked))]

InSeq(x, seq) == \E i \in 1..Len(seq) : seq[i] = x

\* one pass of the loop resolving credential ids through the holder
CredentialStep(a, referented) ==
    IF ~Running(a) \/ InSeq(referented.cred_id, a.credentials) THEN a
    ELSE [AExt(a, Ev("get_credential", referented.cred_id))
            EXCEPT !.credentials = Append(@, referented.cred_id)]

\* one pass of the loop of the first ledger session
LedgerStep(a, cred_id) ==
    LET cred == Wallet[cred_id]
        a1 == IF Running(a) /\ cred.schema_id \notin a.schemas
                THEN [AExt(a, Ev("get_schema", cred.schema_id))
                        EXCEPT !.schemas = @ \cup {cred.schema_id}]
                ELSE a
        a2 == IF Running(a1) /\ cred.cred_def_id \notin a1.credential_definitions
                THEN [AExt(a1, Ev("get_credential_definition", cred.cred_def_id))
                        EXCEPT !.credential_definitions = @ \cup {cred.cred_def_id}]
                ELSE a1
    IN  IF Running(a2) /\ cred.rev_reg_id # NoReg
             /\ cred.rev_reg_id \notin a2.revocation_registries
          THEN [AExt(a2, Ev("get_revoc_reg_def", cred.rev_reg_id))
                  EXCEPT !.revocation_registries = @ \cup {cred.rev_reg_id}]
          ELSE a2

\* truth value of a dictionary looked up with a default of None
Truthy(w) == w.present /\ (w.from # Absent \/ w.to # Absent)

\* the two `not in` tests and assignments on non_revoked_timespan
FillDefaults(w, now) ==
    [w EXCEPT !.from = IF @ = Absent THEN 0 ELSE @,
              !.to = IF @ = Absent THEN now ELSE @]

DeltaKey(rev_reg_id, w) == <<rev_reg_id, w.from, w.to>>

HasKey(deltas, key) == \E i \in 1..Len(deltas) : deltas[i].key = key

\* the delta of a registry carries the timestamp the ledger answers with,
\* here the upper bound asked for
DeltaEntry(key, rev_reg_id, credential_id, w) ==
    [key |-> key, rev_reg_id |-> rev_reg_id, credential_id |-> credential_id,
     from |-> w.from, to |-> w.to, delta_timestamp |-> w.to]

\* one pass of the loop of the second ledger session
DeltaStep(a, referented) ==
    LET rev_reg_id == Wallet[referented.cred_id].rev_reg_id
        referent_non_revoked_timespan ==
            IF referented.non_revoked.present
              THEN referented.non_revoked
              ELSE a.non_revoked_timespan
    IN  IF ~Running(a) \/ rev_reg_id = NoReg
             \/ ~Truthy(referent_non_revoked_timespan)
          THEN a
        ELSE IF ~a.non_revoked_timespan.present THEN ARaise(a, "TypeError")
        ELSE
          LET w == FillDefaults(a.non_revoked_timespan, a.now)
              key == DeltaKey(rev_reg_id, w)
              a1 == [a EXCEPT !.non_revoked_timespan = w]
          IN  IF HasKey(a1.revoc_reg_deltas, key) THEN a1
              ELSE [AExt(a1, EvDelta(rev_reg_id, w.from, w.to))
                      EXCEPT !.revoc_reg_deltas =
                        Append(@, DeltaEntry(key, rev_reg_id, referented.cred_id, w))]

\* the variable `credential` after the loop of the first ledger session
LeftoverCredential(a) == Wallet[a.credentials[Len(a.credentials)]]

RevState(d, cred_rev_id) ==
    [rev_reg_id |-> d.rev_reg_id, delta_timestamp |-> d.delta_timestamp,
     cred_rev_id |-> cred_rev_id, from |-> d.from, to |-> d.to]

\* rev_reg.has_local_tail_file: the answer of the presence check
HasLocalTailFile(a, rev_reg_id) ==
    EvArg("has_local_tail_file", rev_reg_id,
          IF rev_reg_id \in a.tails THEN "present" ELSE "absent")

\* the tails retrieved on every pass, whatever the presence check answers
StateStepAlwaysRetrieve(a, d) ==
    IF ~Running(a) THEN a
    ELSE
      LET a1 == [a EXCEPT !.run.trace = Append(@, HasLocalTailFile(a, d.rev_reg_id))]
          a2 == LET b == AExt(a1, Ev("retrieve_tails", d.rev_reg_id))
                IN  IF Running(b) THEN [b EXCEPT !.tails = @ \cup {d.rev_reg_id}]
                    ELSE b
          cred_rev_id == LeftoverCredential(a).cred_rev_id
          a3 == AExt(a2, EvArg("create_revocation_state", d.rev_reg_id, cred_rev_id))
      IN  IF ~Running(a3) THEN a3
          ELSE [a3 EXCEPT !.revocation_states =
                  { s \in @ : ~(s.rev_reg_id = d.rev_reg_id
                                /\ s.delta_timestamp = d.delta_timestamp) }
                  \cup {RevState(d, cred_rev_id)}]

\* one pass of the loop building revocation states
StateStep(a, d) ==
    IF ~Running(a) THEN a
    ELSE
      LET a1 == [a EXCEPT !.run.trace = Append(@, HasLocalTailFile(a, d.rev_reg_id))]
          a2 == IF d.rev_reg_id \in a1.tails THEN a1
                ELSE LET b == AExt(a1, Ev("retrieve_tails", d.rev_reg_id))
                     IN  IF Running(b) THEN [b EXCEPT !.tails = @ \cup {d.rev_reg_id}]
                         ELSE b
          cred_rev_id == LeftoverCredential(a).cred_rev_id
          a3 == AExt(a2, EvArg("create_revocation_state", d.rev_reg_id, cred_rev_id))
      IN  IF ~Running(a3) THEN a3
          ELSE [a3 EXCEPT !.revocation_states =
                  { s \in @ : ~(s.rev_reg_id = d.rev_reg_id
                                /\ s.delta_timestamp = d.delta_timestamp) }
                  \cup {RevState(d, cred_rev_id)}]

\* holder.create_presentation: one identifier per credential, and the
\* requested attributes revealed with the credential's value
IndexOf(x, seq) == CHOOSE i \in 1..Len(seq) : seq[i] = x

IndyProof(a, requested) ==
    Proof([i \in 1..Len(a.credentials) |->
             Identifier(Wallet[a.credentials[i]].schema_id,
                        Wallet[a.credentials[i]].cred_def_id)],
          [i \in 1..Len(requested.requested_attributes) |->
             LET rq == requested.requested_attributes[i]
             IN  Revealed(rq.referent, Wallet[rq.cred_id].value,
                          IndexOf(rq.cred_id, a.credentials) - 1)])

\* the statements of create_presentation, in order
AssemblePhases ==
    << "requested_attributes", "requested_predicates", "credentials",
       "ledger_open", "ledger", "ledger_close", "non_revoked_timespan",
       "ledger_open", "revoc_reg_deltas", "ledger_close",
       "revocation_states", "create_presentation", "save", "return" >>

\* one statement of create_presentation
AssembleStep(a, phase) ==
    CASE phase = "requested_attributes" ->
           Fold(AttributeStep, a, a.requested.requested_attributes, 1)
      [] phase = "requested_predicates" ->
           Fold(PredicateStep, a, a.requested.requested_predicates, 1)
      [] phase = "credentials" -> Fold(CredentialStep, a, a.requested_referents, 1)
      [] phase = "ledger_open" -> [a EXCEPT !.run = LedgerOpen(@)]
      [] phase = "ledger" -> Fold(LedgerStep, a, a.credentials, 1)
      [] phase = "ledger_close" -> [a EXCEPT !.run = LedgerClose(@)]
      [] phase = "non_revoked_timespan" ->
           IF Running(a) /\ ~a.rec.presentation_request.present
             THEN ARaise(a, "AttributeError") ELSE a
      [] phase = "revoc_reg_deltas" -> Fold(DeltaStep, a, a.requested_referents, 1)
      [] phase = "revocation_states" -> Fold(StateStep, a, a.revoc_reg_deltas, 1)
      [] phase = "create_presentation" -> AExt(a, Ev("create_presentation", "holder"))
      [] phase = "save" -> AExt(a, Ev("save", STATE_PRESENTATION_SENT))
      [] OTHER ->
           IF Running(a)
             THEN [a EXCEPT !.run.trace = Append(@, Ev("presentation_message", a.rec.thread_id))]
             ELSE a

AssembleRun(rec, requested, now, localTails, failAt) ==
    Fold(AssembleStep, Asm0(rec, requested, now, localTails, failAt), AssemblePhases, 1)

\* the record as saved: the request-level window is the dictionary held by
\* the record's proof request, so its filled-in bounds are saved with it
PresentedRecord(a, requested) ==
    [a.rec EXCEPT !.state = STATE_PRESENTATION_SENT,
                  !.presentation = IndyProof(a, requested),
                  !.presentation_request.non_revoked = a.non_revoked_timespan]

\* create_presentation with the state assigned and the record saved before
\* the holder builds the proof
create_presentation_save_first(id, requested, now, failAt) ==
    /\ id \in DOMAIN store
    /\ \E a \in {AssembleRun(store[id], requested, now, tails, failAt)} :
          /\ store' =
                IF Running(a) THEN SaveAt(id, PresentedRecord(a, requested))
                ELSE IF \E i \in DOMAIN a.run.trace :
                          a.run.trace[i].call = "create_presentation"
                  THEN SaveAt(id, [store[id] EXCEPT !.state = STATE_PRESENTATION_SENT])
                  ELSE store
          /\ tails' = a.tails
          /\ lastOp' = OpIn("create_presentation", id, a.run.err, a.run.trace,
                            [requested |-> requested, now |-> now, responder |-> FALSE,
                             presentation |-> NoPresentation,
                             non_revoked |-> store[id].presentation_request.non_revoked,
                             referents |-> a.requested_referents,
                             revocation_states |-> a.revocation_states,
                             returned |-> IF Running(a) THEN PresentedRecord(a, requested)
                                                        ELSE NoRecord,
                             message |-> NoMessage])
    /\ UNCHANGED tasks

create_presentation(id, requested, now, failAt) ==
    /\ id \in DOMAIN store
    /\ \E a \in {AssembleRun(store[id], requested, now, tails, failAt)} :
          /\ store' = IF Running(a) THEN SaveAt(id, PresentedRecord(a, requested))
                                    ELSE store
          /\ tails' = a.tails
          /\ lastOp' = OpIn("create_presentation", id, a.run.err, a.run.trace,
                            [requested |-> requested, now |-> now, responder |-> FALSE,
                             presentation |-> NoPresentation,
                             non_revoked |-> store[id].presentation_request.non_revoked,
                             referents |-> a.requested_referents,
                             revocation_states |-> a.revocation_states,
                             returned |-> IF Running(a) THEN PresentedRecord(a, requested)
                                                        ELSE NoRecord,
                             message |-> NoMessage])
    /\ UNCHANGED tasks

----------------------------------------------------------------------------
(* The protocol: every operation, on any record, in any order *)

Requested(r, c) == [referent |-> r, cred_id |-> c]

\* requested_credentials a caller may pass for a request with attribute r1
RequestedChoices ==
    { [requested_attributes |-> <<Requested("r1", c)>>, requested_predicates |-> <<>>]
        : c \in {"c1"} }

\* thread ids of inbound messages: those of the exchanges, and a foreign one
InboundThreads == Threads \cup {"t9"}

Init ==
    /\ store = <<>>
    /\ tasks = [t \in 1..MaxTasks |-> Idle]
    /\ tails = {}
    /\ lastOp = NoOp

Next ==
    \/ /\ Len(store) < MaxRecords
       /\ \E conn \in Conns, msg \in ProposalMessages, saveOk \in BOOLEAN :
             create_exchange_for_proposal(conn, msg, saveOk)
    \/ /\ Len(store) < MaxRecords
       /\ \E conn \in Conns, msg \in ProposalMessages, saveOk \in BOOLEAN :
             receive_proposal(conn, msg, saveOk)
    \/ /\ Len(store) < MaxRecords
       /\ \E conn \in Conns, msg \in RequestMessages, saveOk \in BOOLEAN :
             create_exchange_for_request(conn, msg, saveOk)
    \/ \E id \in DOMAIN store, saveOk \in BOOLEAN : create_bound_request(id, saveOk)
    \/ \E id \in DOMAIN store, saveOk \in BOOLEAN : receive_request(id, saveOk)
    \/ \E id \in DOMAIN store, requested \in RequestedChoices, now \in Times :
          \E failAt \in 0..AssembleRun(store[id], requested, now, tails, 0).run.n :
              create_presentation(id, requested, now, failAt)
    \/ \E thid \in InboundThreads, pres \in InboundProofs,
          connFilter \in Conns \cup {NoConn}, saveOk \in BOOLEAN :
          receive_presentation(thid, pres, connFilter, saveOk)
    \/ \E id \in DOMAIN store, hasResponder \in BOOLEAN, verdict \in BOOLEAN :
          \E failAt \in 0..VerifyRun(store[id], 0, hasResponder, verdict).run.n :
              verify_presentation(id, failAt, hasResponder, verdict)
    \/ \E thid \in InboundThreads, conn \in Conns, saveOk \in BOOLEAN :
          receive_presentation_ack(thid, conn, saveOk)

Spec == Init /\ [][Next]_vars

----------------------------------------------------------------------------
(* Proof assembly on its own: create_presentation on a prover's record     *)
(* whose proof request names attribute r1 and predicate r2, for every      *)
(* choice of the per-referent and request-level non-revocation windows.    *)

\* absent; empty; only `from`; only `to`; both bounds
WindowChoices ==
    { NoWindow, Window(Absent, Absent), Window(1, Absent), Window(Absent, 1),
      Window(0, 1) }

AssemblyRequests ==
    { [present |-> TRUE,
       requested_attributes |-> [r \in {"r1"} |-> ReqAttr("age", w1)],
       requested_predicates |-> [r \in {"r2"} |-> ReqAttr("age", w2)],
       non_revoked |-> w]
        : w1 \in WindowChoices, w2 \in WindowChoices, w \in WindowChoices }

AssemblyRequested ==
    { [requested_attributes |-> attrs, requested_predicates |-> preds]
        : attrs \in {<<>>} \cup {<<Requested("r1", c)>> : c \in CredIds},
          preds \in {<<>>} \cup {<<Requested("r2", c)>> : c \in CredIds} }

InitAssembly ==
    /\ \E req \in AssemblyRequests :
          store = <<Record("conn1", "t1", INITIATOR_EXTERNAL, ROLE_PROVER,
                           STATE_REQUEST_RECEIVED, NoProposal, req)>>
    /\ tasks = [t \in 1..MaxTasks |-> Idle]
    /\ tails \in {{}, {"R1"}}
    /\ lastOp = NoOp

\* one call on each record
NextAssembly ==
    /\ lastOp = NoOp
    /\ \E requested \in AssemblyRequested, now \in Times :
          \E failAt \in 0..AssembleRun(store[1], requested, now, tails, 0).run.n :
              create_presentation(1, requested, now, failAt)

SpecAssembly == InitAssembly /\ [][NextAssembly]_vars

----------------------------------------------------------------------------
(* Inbound presentation and acknowledgement of one thread, interleaved at   *)
(* their awaits, on the record of a request the verifier has sent.          *)

NextRace ==
    \/ /\ Len(store) < MaxRecords
       /\ \E conn \in Conns, msg \in RequestMessages :
             create_exchange_for_request(conn, msg, TRUE)
    \/ \E t \in 1..MaxTasks, thid \in Threads, pres \in InboundProofs, conn \in Conns :
          receive_presentation_retrieve(t, thid, pres, conn)
    \/ \E t \in 1..MaxTasks, saveOk \in BOOLEAN : receive_presentation_save(t, saveOk)
    \/ \E t \in 1..MaxTasks, thid \in Threads, conn \in Conns :
          receive_presentation_ack_retrieve(t, thid, conn)
    \/ \E t \in 1..MaxTasks, saveOk \in BOOLEAN : receive_presentation_ack_save(t, saveOk)

SpecRace == Init /\ [][NextRace]_vars

----------------------------------------------------------------------------
(* One exchange end to end, between a verifier and a prover.  The store    *)
(* holds the records of both agents: each agent files its record under its *)
(* own connection id and retrieves with that id, so neither sees the       *)
(* other's record.                                                         *)

VerifierConn == "conn1"
ProverConn == "conn2"

\* the record the request handler hands to receive_request when the prover
\* holds no record of the thread: not saved yet, with the proof request of
\* the message
HandlerRequestRecord(conn, msg) ==
    Record(conn, _thread_id(msg), INITIATOR_EXTERNAL, ROLE_PROVER,
           "none", NoProposal, msg.request)

\* receive_request on a record that has no storage id yet
receive_request_unsaved(conn, msg, saveOk) ==
    LET rec == ReceiveRequestRecord(HandlerRequestRecord(conn, msg))
    IN  /\ IF saveOk
             THEN /\ store' = SaveNew(rec)
                  /\ lastOp' = OpRet("receive_request", Len(store) + 1, <<>>, rec)
             ELSE /\ store' = store
                  /\ lastOp' = Op("receive_request", 0, "StorageError", <<>>)
        /\ UNCHANGED <<tasks, tails>>

\* the step `cur` follows a completed step `prev`, or is tried again after
\* it failed
After(prev, cur) ==
    \/ lastOp.op = prev /\ lastOp.result = "ok"
    \/ lastOp.op = cur /\ lastOp.result # "ok"

\* the request message create_bound_request returned for the record
BoundRequestMessage(rec) ==
    [thid |-> rec.thread_id, id |-> "m3", request |-> rec.presentation_request]

NextScenario ==
    \/ /\ lastOp = NoOp \/ (lastOp.op = "receive_proposal" /\ lastOp.result # "ok")
       /\ \E msg \in ProposalMessages, saveOk \in BOOLEAN :
             receive_proposal(VerifierConn, msg, saveOk)
    \/ /\ After("receive_proposal", "create_bound_request")
       /\ \E saveOk \in BOOLEAN : create_bound_request(1, saveOk)
    \/ /\ After("create_bound_request", "receive_request")
       /\ \E saveOk \in BOOLEAN :
             receive_request_unsaved(ProverConn, BoundRequestMessage(store[1]), saveOk)
    \/ /\ After("receive_request", "create_presentation")
       /\ \E requested \in RequestedChoices, now \in Times :
             \E failAt \in 0..AssembleRun(store[2], requested, now, tails, 0).run.n :
                 create_presentation(2, requested, now, failAt)
    \/ /\ After("create_presentation", "receive_presentation")
       /\ \E saveOk \in BOOLEAN :
             receive_presentation(store[2].thread_id, store[2].presentation,
                                  VerifierConn, saveOk)
    \/ /\ After("receive_presentation", "verify_presentation")
       /\ \E hasResponder \in BOOLEAN, verdict \in BOOLEAN :
             \E failAt \in 0..VerifyRun(store[1], 0, hasResponder, verdict).run.n :
                 verify_presentation(1, failAt, hasResponder, verdict)
    \/ /\ \/ /\ lastOp.op = "verify_presentation"
             /\ \E i \in DOMAIN lastOp.trace :
                   lastOp.trace[i].call = "send_reply" /\ lastOp.trace[i].ok
          \/ lastOp.op = "receive_presentation_ack" /\ lastOp.result # "ok"
       /\ \E saveOk \in BOOLEAN :
             receive_presentation_ack(store[1].thread_id, ProverConn, saveOk)

\* no record yet; the prover may hold the tails file of the registry
InitScenario ==
    /\ store = <<>>
    /\ tasks = [t \in 1..MaxTasks |-> Idle]
    /\ tails \in {{}, {"R1"}}
    /\ lastOp = NoOp

SpecScenario == InitScenario /\ [][NextScenario]_vars

----------------------------------------------------------------------------
(* Messages delivered more than once: the record-creating operations and   *)
(* the two handlers that retrieve a record by thread.                      *)

NextDeliveries ==
    \/ /\ Len(store) < MaxDeliveries
       /\ \E conn \in Conns, msg \in ProposalMessages, saveOk \in BOOLEAN :
             create_exchange_for_proposal(conn, msg, saveOk)
    \/ /\ Len(store) < MaxDeliveries
       /\ \E conn \in Conns, msg \in ProposalMessages, saveOk \in BOOLEAN :
             receive_proposal(conn, msg, saveOk)
    \/ /\ Len(store) < MaxDeliveries
       /\ \E conn \in Conns, msg \in RequestMessages, saveOk \in BOOLEAN :
             create_exchange_for_request(conn, msg, saveOk)
    \/ \E thid \in InboundThreads, pres \in InboundProofs,
          connFilter \in Conns \cup {NoConn}, saveOk \in BOOLEAN :
          receive_presentation(thid, pres, connFilter, saveOk)
    \/ \E thid \in InboundThreads, conn \in Conns, saveOk \in BOOLEAN :
          receive_presentation_ack(thid, conn, saveOk)

SpecDeliveries == Init /\ [][NextDeliveries]_vars

----------------------------------------------------------------------------
(* Proposals from either side: threaded and unthreaded proposal messages on *)
(* two connections, each becoming a record                                   *)

OriginConns == {VerifierConn, ProverConn}

OriginProposals ==
    { [present |-> TRUE, attributes |-> <<AttrSpec("D1", "age", "21")>>],
      [present |-> TRUE, attributes |-> <<AttrSpec("D1", "name", "Ann")>>] }

\* a proposal that continues thread t1 or t2, or that starts a thread
OriginMessages == [thid : {"t1", "t2", "none"}, id : {"m1"}, proposal : OriginProposals]

NextOrigin ==
    \/ /\ Len(store) < MaxDeliveries
       /\ \E conn \in OriginConns, msg \in OriginMessages, saveOk \in BOOLEAN :
             create_exchange_for_proposal(conn, msg, saveOk)
    \/ /\ Len(store) < MaxDeliveries
       /\ \E conn \in OriginConns, msg \in OriginMessages, saveOk \in BOOLEAN :
             receive_proposal(conn, msg, saveOk)

SpecOrigin == Init /\ [][NextOrigin]_vars

----------------------------------------------------------------------------
(* Verification of presentations built from one or two credentials: the     *)
(* verifier sends a request, receives a presentation and verifies it, any   *)
(* number of times.                                                         *)

\* the credentials a presentation may be built from: two of one schema
\* under different credential definitions, and one of another schema
PresentedIdentifiers ==
    { Identifier("S1", "D1"), Identifier("S1", "D2"), Identifier("S2", "D2") }

\* indy proofs with one or two identifiers, revealing no attribute
VerifierProofs ==
    { Proof(<<i1>>, <<>>) : i1 \in PresentedIdentifiers }
      \cup { Proof(<<i1, i2>>, <<>>) : i1 \in PresentedIdentifiers, i2 \in PresentedIdentifiers }

NextVerify ==
    \/ /\ Len(store) < MaxRecords
       /\ \E conn \in Conns, msg \in RequestMessages, saveOk \in BOOLEAN :
             create_exchange_for_request(conn, msg, saveOk)
    \/ \E thid \in Threads, pres \in VerifierProofs, conn \in Conns, saveOk \in BOOLEAN :
          receive_presentation(thid, pres, conn, saveOk)
    \/ \E id \in DOMAIN store, hasResponder \in BOOLEAN, verdict \in BOOLEAN :
          \E failAt \in 0..VerifyRun(store[id], 0, hasResponder, verdict).run.n :
              verify_presentation(id, failAt, hasResponder, verdict)

SpecVerify == Init /\ [][NextVerify]_vars

----------------------------------------------------------------------------
(* Properties                                                              *)

\* position of a state in the order
\* PROPOSAL_* -> REQUEST_* -> PRESENTATION_SENT/RECEIVED -> VERIFIED -> ACKED
Rank(state) ==
    CASE state \in {STATE_PROPOSAL_SENT, STATE_PROPOSAL_RECEIVED} -> 1
      [] state \in {STATE_REQUEST_SENT, STATE_REQUEST_RECEIVED} -> 2
      [] state \in {STATE_PRESENTATION_SENT, STATE_PRESENTATION_RECEIVED} -> 3
      [] state = STATE_VERIFIED -> 4
      [] state = STATE_PRESENTATION_ACKED -> 5
      [] OTHER -> 0

\* the calls of an operation that raised
FailedCalls(op) == { op.trace[i].call : i \in { j \in DOMAIN op.trace : ~op.trace[j].ok } }

\* positions of the calls named call in an operation's trace
CallsOf(op, call) == { i \in DOMAIN op.trace : op.trace[i].call = call }

\* C1: no operation moves the persisted state of a record to an earlier
\* state of the order PROPOSAL_* -> REQUEST_* -> PRESENTATION_SENT /
\* PRESENTATION_RECEIVED -> VERIFIED -> PRESENTATION_ACKED.
C1_StateNeverRegresses ==
    [][\A i \in DOMAIN store : Rank(store'[i].state) >= Rank(store[i].state)]_vars

\* the revealed attribute a of presentation pres has its (cred_def_id, name,
\* raw value) triple in the preview stored with rec
RevealedMatched(rec, pres, a) ==
    /\ a.reft \in DOMAIN rec.presentation_request.requested_attributes
    /\ a.sub_proof_index < Len(pres.identifiers)
    /\ \E i \in DOMAIN rec.presentation_proposal_dict.attributes :
          LET spec == rec.presentation_proposal_dict.attributes[i]
          IN  /\ spec.cred_def_id = pres.identifiers[a.sub_proof_index + 1].cred_def_id
              /\ spec.name = rec.presentation_request.requested_attributes[a.reft].name
              /\ spec.value = a.raw

\* C2: receive_presentation on a record with a stored proposal preview (and
\* the proof request bound to it) succeeds, persisting PRESENTATION_RECEIVED,
\* only if every revealed attribute is matched by the preview; if one is
\* unmatched it fails with PresentationManagerError and the persisted record
\* is unchanged.
C2_UnmatchedRevealedRejected ==
    [][ LET op == lastOp'
        IN  ( /\ op.op = "receive_presentation"
              /\ op.rid \in DOMAIN store
              /\ store[op.rid].presentation_proposal_dict.present
              /\ store[op.rid].presentation_request.present )
            =>
            LET rec == store[op.rid]
                pres == op.input.presentation
                allMatched == \A i \in DOMAIN pres.revealed_attrs :
                                  RevealedMatched(rec, pres, pres.revealed_attrs[i])
            IN  /\ op.result = "ok" =>
                      /\ allMatched
                      /\ store'[op.rid].state = STATE_PRESENTATION_RECEIVED
                /\ ~allMatched =>
                      /\ op.result = "PresentationManagerError"
                      /\ store' = store ]_vars

\* C3 as stated: whenever a call to a holder, ledger, verifier, responder or
\* revocation registry fails inside an operation, the failure is propagated
\* and the persisted records are identical to what they were before.
C3_NoPersistedChangeOnFailure ==
    [][ FailedCalls(lastOp') # {} =>
          /\ lastOp'.result = "ExternalServiceError"
          /\ store' = store ]_vars

\* C3 as amended: a failing call is propagated; the persisted records are
\* unchanged unless the failing call is the responder's send_reply at the end
\* of verify_presentation, in which case the record has been saved completely:
\* state VERIFIED, with the verifier's result, and nothing else changed.
C3_FailureLeavesNoPartialRecord ==
    [][ FailedCalls(lastOp') # {} =>
          /\ lastOp'.result = "ExternalServiceError"
          /\ IF "send_reply" \in FailedCalls(lastOp')
               THEN /\ lastOp'.op = "verify_presentation"
                    /\ \E i \in CallsOf(lastOp', "verify_presentation") :
                          store' = [store EXCEPT ![lastOp'.rid] =
                                      [@ EXCEPT !.state = STATE_VERIFIED,
                                                !.verified = lastOp'.trace[i].id]]
               ELSE store' = store ]_vars

\* a holder call failed in the middle of create_presentation on a record in
\* REQUEST_RECEIVED, which is still the persisted state
C3_Witness ==
    /\ lastOp.op = "create_presentation"
    /\ lastOp.result = "ExternalServiceError"
    /\ "create_presentation" \in FailedCalls(lastOp)
    /\ store[lastOp.rid].state = STATE_REQUEST_RECEIVED

\* C4: create_bound_request on a record with no stored proposal fails with
\* ProtocolError and persists nothing: the stored state, thread_id and
\* presentation_request are unchanged.
C4_BoundRequestNeedsProposal ==
    [][ ( /\ lastOp'.op = "create_bound_request"
          /\ lastOp'.rid \in DOMAIN store
          /\ ~store[lastOp'.rid].presentation_proposal_dict.present )
        =>
        /\ lastOp'.result = "ProtocolError"
        /\ store' = store ]_vars

\* create_bound_request has failed on a record created for a free request
C4_Witness ==
    /\ lastOp.op = "create_bound_request"
    /\ lastOp.result = "ProtocolError"
    /\ ~store[lastOp.rid].presentation_proposal_dict.present
    /\ store[lastOp.rid].state = STATE_REQUEST_SENT

\* the states each transition operation is expected in
Expected(op) ==
    CASE op = "receive_request" -> {STATE_PROPOSAL_SENT}
      [] op = "create_presentation" -> {STATE_REQUEST_RECEIVED}
      [] op = "create_bound_request" -> {STATE_PROPOSAL_RECEIVED}
      [] op = "receive_presentation" -> {STATE_REQUEST_SENT}
      [] op = "verify_presentation" -> {STATE_PRESENTATION_RECEIVED}
      [] op = "receive_presentation_ack" -> {STATE_PRESENTATION_SENT, STATE_VERIFIED}
      [] OTHER -> States

\* C5: a transition operation invoked on a record that is not in the
\* operation's expected predecessor state does not perform the transition.
C5_OnlyFromExpectedState ==
    [][ ( /\ lastOp'.rid \in DOMAIN store
          /\ store[lastOp'.rid].state \notin Expected(lastOp'.op) )
        => store'[lastOp'.rid].state = store[lastOp'.rid].state ]_vars

\* C6: with receive_presentation and receive_presentation_ack of one thread
\* interleaved at their retrieve and save steps, no step leaves a record in a
\* state earlier than the one persisted, and an acknowledgement is persisted
\* only on a record whose presentation has been recorded.
C6_RaceKeepsLastValidTransition ==
    [][ \A i \in DOMAIN store :
          /\ Rank(store'[i].state) >= Rank(store[i].state)
          /\ ( /\ store'[i].state = STATE_PRESENTATION_ACKED
               /\ store[i].state # STATE_PRESENTATION_ACKED )
             => Rank(store[i].state) >= Rank(STATE_PRESENTATION_RECEIVED) ]_vars

\* the non-revocation window in force for a referent: its own when the
\* proof request declares one, else the request-level one
Effective(op, referented) ==
    IF referented.non_revoked.present
      THEN referented.non_revoked
      ELSE op.input.non_revoked

\* a window completed with from = 0 and to = the current time
Completed(w, now) ==
    [from |-> IF w.from = Absent THEN 0 ELSE w.from,
     to |-> IF w.to = Absent THEN now ELSE w.to]

\* the referents of a call whose credential has a revocation registry and
\* whose window in force has a bound
Revocable(op) ==
    { i \in DOMAIN op.input.referents :
        LET eff == Effective(op, op.input.referents[i])
        IN  /\ Wallet[op.input.referents[i].cred_id].rev_reg_id # NoReg
            /\ eff.present
            /\ (eff.from # Absent \/ eff.to # Absent) }

\* the (registry_id, from, to) key of a referent
KeyOf(op, i) ==
    LET w == Completed(Effective(op, op.input.referents[i]), op.input.now)
    IN  <<Wallet[op.input.referents[i].cred_id].rev_reg_id, w.from, w.to>>

\* the delta fetches of a call that ask for key
FetchesOf(op, key) ==
    { j \in CallsOf(op, "get_revoc_reg_delta") :
        <<op.trace[j].id, op.trace[j].from, op.trace[j].to>> = key }

\* C7: a completed create_presentation fetches the revocation-registry delta
\* exactly once for each (registry_id, from, to) key of its referents, and
\* makes as many fetches as there are distinct keys.
C7_OneFetchPerKey ==
    (lastOp.op = "create_presentation" /\ lastOp.result = "ok") =>
        LET keys == { KeyOf(lastOp, i) : i \in Revocable(lastOp) }
        IN  /\ \A key \in keys : Cardinality(FetchesOf(lastOp, key)) = 1
            /\ Cardinality(CallsOf(lastOp, "get_revoc_reg_delta")) = Cardinality(keys)

\* C8: create_presentation, when none of its collaborators fails, completes
\* for every combination of per-referent and request-level windows; each
\* referent with a registry and a window in force has a delta fetched for
\* that window, and every delta fetched is for the window in force of some
\* referent (so none is fetched when no window exists).
C8_EffectiveWindowPerReferent ==
    (lastOp.op = "create_presentation" /\ FailedCalls(lastOp) = {}) =>
        /\ lastOp.result = "ok"
        /\ \A i \in Revocable(lastOp) : FetchesOf(lastOp, KeyOf(lastOp, i)) # {}
        /\ \A j \in CallsOf(lastOp, "get_revoc_reg_delta") :
              \E i \in DOMAIN lastOp.input.referents :
                  /\ Effective(lastOp, lastOp.input.referents[i]).present
                  /\ j \in FetchesOf(lastOp, KeyOf(lastOp, i))

\* C9: in a completed create_presentation, a window in force with only
\* `from` set is fetched with to = the current time, one with only `to` set
\* is fetched with from = 0, and every fetch has 0 <= from <= to.
C9_DefaultWindowFilling ==
    (lastOp.op = "create_presentation" /\ lastOp.result = "ok") =>
        /\ \A i \in Revocable(lastOp) :
              LET eff == Effective(lastOp, lastOp.input.referents[i])
                  reg == Wallet[lastOp.input.referents[i].cred_id].rev_reg_id
              IN  /\ (eff.from # Absent /\ eff.to = Absent) =>
                        FetchesOf(lastOp, <<reg, eff.from, lastOp.input.now>>) # {}
                  /\ (eff.from = Absent /\ eff.to # Absent) =>
                        FetchesOf(lastOp, <<reg, 0, eff.to>>) # {}
        /\ \A j \in CallsOf(lastOp, "get_revoc_reg_delta") :
              /\ 0 <= lastOp.trace[j].from
              /\ lastOp.trace[j].from <= lastOp.trace[j].to

\* C10 as stated: a verify_presentation that completes has saved the record
\* and then emitted exactly one acknowledgement.
C10_ExactlyOneAck ==
    (lastOp.op = "verify_presentation" /\ lastOp.result = "ok") =>
        Cardinality(CallsOf(lastOp, "send_reply")) = 1

\* C10 as amended: verify_presentation stores the verifier's result in
\* `verified`, sets state VERIFIED and saves; only after that save, and only
\* when a responder is configured, it sends exactly one acknowledgement
\* threaded to the record's thread_id; without a responder, or when the
\* resolution of the inputs, the verifier call or the save fails, it sends
\* none.
C10_AckOnceAfterSave ==
    lastOp.op = "verify_presentation" =>
        LET acks == CallsOf(lastOp, "send_reply")
            saves == { j \in CallsOf(lastOp, "save") : lastOp.trace[j].ok }
            verdicts == { j \in CallsOf(lastOp, "verify_presentation") : lastOp.trace[j].ok }
            rec == store[lastOp.rid]
        IN  /\ saves # {} =>
                  /\ rec.state = STATE_VERIFIED
                  /\ \E j \in verdicts : rec.verified = lastOp.trace[j].id
                  /\ Cardinality(acks) = IF lastOp.input.responder THEN 1 ELSE 0
            /\ saves = {} => acks = {}
            /\ \A i \in acks :
                  /\ lastOp.trace[i].id = rec.thread_id
                  /\ \E j \in saves : j < i
            /\ lastOp.result = "ok" => saves # {}

\* a verification completed with a responder configured: the record is
\* saved as VERIFIED and one acknowledgement follows the save
C10_Witness ==
    /\ lastOp.op = "verify_presentation"
    /\ lastOp.result = "ok"
    /\ lastOp.input.responder
    /\ Cardinality(CallsOf(lastOp, "send_reply")) = 1
    /\ store[lastOp.rid].state = STATE_VERIFIED

\* C11: the run receive_proposal -> create_bound_request -> receive_request
\* -> create_presentation -> receive_presentation -> verify_presentation ->
\* receive_presentation_ack goes through without an error of the manager's
\* own (a step fails only when a collaborator or the storage fails); a
\* verification that returns true leaves the verifier's record VERIFIED with
\* verified = true and sends one acknowledgement, and the acknowledgement
\* received leaves the prover's record at PRESENTATION_ACKED.
C11_EndToEnd ==
    /\ lastOp.result # "ok" =>
          (FailedCalls(lastOp) # {} \/ lastOp.result = "StorageError")
    /\ ( /\ lastOp.op = "verify_presentation"
         /\ lastOp.result = "ok"
         /\ \E i \in CallsOf(lastOp, "verify_presentation") : lastOp.trace[i].id = "true" )
       =>
       /\ store[1].role = ROLE_VERIFIER
       /\ store[1].state = STATE_VERIFIED
       /\ store[1].verified = "true"
       /\ lastOp.input.responder => Cardinality(CallsOf(lastOp, "send_reply")) = 1
    /\ (lastOp.op = "receive_presentation_ack" /\ lastOp.result = "ok") =>
          /\ store[1].state = STATE_VERIFIED
          /\ store[1].verified \in {"true", "false"}
          /\ store[2].role = ROLE_PROVER
          /\ store[2].state = STATE_PRESENTATION_ACKED

\* the run has ended: the verifier holds verified = true and the prover's
\* record is acknowledged
C11_Witness ==
    /\ lastOp.op = "receive_presentation_ack"
    /\ lastOp.result = "ok"
    /\ Len(store) = 2
    /\ store[1].verified = "true"
    /\ store[2].state = STATE_PRESENTATION_ACKED

\* C12 as stated: in every reachable state `verified` is set only on a
\* record whose state is VERIFIED.
C12_VerifiedOnlyInVerified ==
    \A i \in DOMAIN store :
        store[i].verified # "None" => store[i].state = STATE_VERIFIED

\* C12 as amended: `verified` is unknown on a new record and is set, to true
\* or false, only by verify_presentation on that record, in the save that
\* sets state VERIFIED; every other operation keeps the stored value.
C12_VerifiedSetOnlyByVerify ==
    [][ \A i \in DOMAIN store' :
          LET before == IF i \in DOMAIN store THEN store[i].verified ELSE "None"
          IN  store'[i].verified # before =>
                  /\ lastOp'.op = "verify_presentation"
                  /\ lastOp'.rid = i
                  /\ store'[i].state = STATE_VERIFIED
                  /\ store'[i].verified \in {"true", "false"} ]_vars

\* a verified record on which a later presentation or acknowledgement was
\* saved: the state has moved on and the result is still stored
C12_Witness ==
    /\ lastOp.op \in {"receive_presentation", "receive_presentation_ack"}
    /\ lastOp.result = "ok"
    /\ store[lastOp.rid].verified \in {"true", "false"}
    /\ store[lastOp.rid].state # STATE_VERIFIED

\* C13: in every reachable state at most one persisted record exists for a
\* (thread_id, connection_id) pair, also after a proposal or request message
\* was processed twice, and no retrieval by thread finds more than one.
C13_OneRecordPerThread ==
    /\ \A i, j \in DOMAIN store :
          ( /\ store[i].thread_id = store[j].thread_id
            /\ store[i].connection_id = store[j].connection_id ) => i = j
    /\ lastOp.result # "StorageDuplicateError"

\* C14: no operation changes the persisted thread_id of a record, not even
\* create_bound_request, which assigns thread_id from the request message.
C14_ThreadIdImmutable ==
    [][ \A i \in DOMAIN store : store'[i].thread_id = store[i].thread_id ]_vars

\* create_bound_request has saved the record, its thread_id being that of
\* the proposal it was created from
C14_Witness ==
    /\ lastOp.op = "create_bound_request"
    /\ lastOp.result = "ok"
    /\ store[lastOp.rid].state = STATE_REQUEST_SENT
    /\ store[lastOp.rid].thread_id \in Threads

\* C15: in every reachable state a record whose presentation is set has a
\* presentation_request set.
C15_PresentationNeedsRequest ==
    \A i \in DOMAIN store :
        store[i].presentation.present => store[i].presentation_request.present

\* C16: a record created by create_exchange_for_request has role VERIFIER,
\* initiator SELF, state REQUEST_SENT and no proposal when it is created,
\* and a record of that origin (the only one with role VERIFIER and
\* initiator SELF) is never in PROPOSAL_SENT or PROPOSAL_RECEIVED.
C16_FreeRequestSkipsProposal ==
    [][ /\ (lastOp'.op = "create_exchange_for_request" /\ lastOp'.result = "ok") =>
              /\ lastOp'.rid \in DOMAIN store' \ DOMAIN store
              /\ store'[lastOp'.rid].role = ROLE_VERIFIER
              /\ store'[lastOp'.rid].initiator = INITIATOR_SELF
              /\ store'[lastOp'.rid].state = STATE_REQUEST_SENT
              /\ ~store'[lastOp'.rid].presentation_proposal_dict.present
              /\ store'[lastOp'.rid].presentation_request.present
        /\ \A i \in DOMAIN store' :
              (store'[i].role = ROLE_VERIFIER /\ store'[i].initiator = INITIATOR_SELF) =>
                  store'[i].state \notin {STATE_PROPOSAL_SENT, STATE_PROPOSAL_RECEIVED} ]_vars

\* a record created for a free request on which later operations ran
C16_Witness ==
    /\ lastOp.op = "verify_presentation"
    /\ lastOp.result = "ok"
    /\ store[lastOp.rid].role = ROLE_VERIFIER
    /\ store[lastOp.rid].initiator = INITIATOR_SELF
    /\ store[lastOp.rid].state = STATE_VERIFIED

\* C17: with no responder available, a verify_presentation whose ledger,
\* verifier and save calls succeed sends no message and raises nothing: it
\* returns normally, and the record is persisted at VERIFIED with the
\* verifier's result.
C17_NoResponderIsNotAnError ==
    ( /\ lastOp.op = "verify_presentation"
      /\ ~lastOp.input.responder
      /\ FailedCalls(lastOp) = {}
      /\ CallsOf(lastOp, "save") # {} )
    =>
    /\ lastOp.result = "ok"
    /\ CallsOf(lastOp, "send_reply") = {}
    /\ store[lastOp.rid].state = STATE_VERIFIED
    /\ \E i \in CallsOf(lastOp, "verify_presentation") :
          store[lastOp.rid].verified = lastOp.trace[i].id

\* a verification completed without a responder
C17_Witness ==
    /\ lastOp.op = "verify_presentation"
    /\ ~lastOp.input.responder
    /\ lastOp.result = "ok"
    /\ store[lastOp.rid].state = STATE_VERIFIED
    /\ store[lastOp.rid].verified \in {"true", "false"}

\* the operations that return a record to their caller
ReturningOps ==
    {"create_exchange_for_proposal", "receive_proposal", "create_bound_request",
     "create_exchange_for_request", "receive_request", "create_presentation",
     "receive_presentation", "verify_presentation", "receive_presentation_ack"}

\* the calls that hand a message to the other party
OutboundCalls == {"presentation_request_message", "presentation_message", "send_reply"}

SameExchange(a, b) ==
    /\ a.state = b.state
    /\ a.thread_id = b.thread_id
    /\ a.presentation_request = b.presentation_request
    /\ a.presentation = b.presentation
    /\ a.verified = b.verified

\* the operation's save succeeded before position i of its trace
SavedBefore(op, i) ==
    \/ op.op = "create_bound_request" /\ op.result = "ok"
    \/ \E j \in 1..(i - 1) : op.trace[j].call = "save" /\ op.trace[j].ok

\* C18: an operation that returns a record has saved it first, so at return
\* the persisted record equals the returned one in state, thread_id,
\* presentation_request, presentation and verified; and a request,
\* presentation or ack message is only produced after the operation's save
\* succeeded.
C18_ReturnedRecordIsPersisted ==
    /\ (lastOp.op \in ReturningOps /\ lastOp.result = "ok") =>
          /\ lastOp.input.returned # NoRecord
          /\ lastOp.rid \in DOMAIN store
          /\ SameExchange(store[lastOp.rid], lastOp.input.returned)
    /\ lastOp.result # "ok" => lastOp.input.returned = NoRecord
    /\ \A i \in DOMAIN lastOp.trace :
          lastOp.trace[i].call \in OutboundCalls => SavedBefore(lastOp, i)

\* an ack went out with the verified record saved and returned
C18_Witness ==
    /\ lastOp.op = "verify_presentation"
    /\ lastOp.result = "ok"
    /\ lastOp.input.returned.state = STATE_VERIFIED
    /\ store[lastOp.rid] = lastOp.input.returned
    /\ \E i \in DOMAIN lastOp.trace : lastOp.trace[i].call = "send_reply"

\* C19: a record created from a proposal carries the role, initiator and
\* state of its origin: create_exchange_for_proposal makes a PROVER record
\* initiated by SELF in PROPOSAL_SENT, receive_proposal a VERIFIER record
\* initiated EXTERNALly in PROPOSAL_RECEIVED; both store the serialized
\* proposal and take the thread id of the proposal message.
C19_ProposalRecordHasItsOrigin ==
    (lastOp.result = "ok" /\ lastOp.op \in {"create_exchange_for_proposal", "receive_proposal"}) =>
        LET rec == store[lastOp.rid]
            msg == lastOp.input.message
        IN  /\ lastOp.rid = Len(store)
            /\ rec.thread_id = (IF msg.thid # "none" THEN msg.thid ELSE msg.id)
            /\ rec.presentation_proposal_dict = msg.proposal
            /\ rec.presentation_request = NoRequest
            /\ IF lastOp.op = "create_exchange_for_proposal"
                 THEN /\ rec.role = ROLE_PROVER
                      /\ rec.initiator = INITIATOR_SELF
                      /\ rec.state = STATE_PROPOSAL_SENT
                 ELSE /\ rec.role = ROLE_VERIFIER
                      /\ rec.initiator = INITIATOR_EXTERNAL
                      /\ rec.state = STATE_PROPOSAL_RECEIVED

\* a proposal sent on one connection and an unthreaded proposal received on
\* the other, one record each
C19_Witness ==
    /\ Len(store) = 2
    /\ store[1].role = ROLE_PROVER
    /\ store[1].thread_id = "t2"
    /\ lastOp.op = "receive_proposal"
    /\ lastOp.result = "ok"
    /\ lastOp.input.message.thid = "none"
    /\ store[2].thread_id = "m1"
    /\ store[2].role = ROLE_VERIFIER

LedgerReads ==
    {"get_schema", "get_credential_definition", "get_revoc_reg_def", "get_revoc_reg_delta"}

\* the ledger sessions open before position i of a trace
OpenSessions(trace, i) ==
    Cardinality({ j \in 1..(i - 1) : trace[j].call = "ledger.open" /\ trace[j].ok })
      - Cardinality({ j \in 1..(i - 1) : trace[j].call = "ledger.close" })

\* C20: every ledger read of create_presentation and verify_presentation
\* (schema, credential definition, registry definition, registry delta)
\* happens inside an open ledger session, a session is never opened inside
\* another, and every opened session is closed when the operation ends,
\* on a normal return as well as when a read inside the session failed.
C20_LedgerSessionsScoped ==
    lastOp.op \in {"create_presentation", "verify_presentation"} =>
        LET trace == lastOp.trace
        IN  /\ \A i \in DOMAIN trace :
                  /\ trace[i].call \in LedgerReads => OpenSessions(trace, i) = 1
                  /\ trace[i].call = "ledger.open" => OpenSessions(trace, i) = 0
                  /\ trace[i].call = "ledger.close" => OpenSessions(trace, i) = 1
            /\ OpenSessions(trace, Len(trace) + 1) = 0

\* the delta read of the second session failed and the session was closed
C20_Witness ==
    /\ lastOp.op = "create_presentation"
    /\ lastOp.result = "ExternalServiceError"
    /\ Len(lastOp.trace) >= 2
    /\ lastOp.trace[Len(lastOp.trace)].call = "ledger.close"
    /\ lastOp.trace[Len(lastOp.trace) - 1].call = "get_revoc_reg_delta"
    /\ ~lastOp.trace[Len(lastOp.trace) - 1].ok
    /\ Cardinality({ j \in DOMAIN lastOp.trace : lastOp.trace[j].call = "ledger.open" }) = 2

\* C21: create_presentation leaves the stored proof request as it was:
\* completing the bounds of a non-revocation window changes neither the
\* request-level window of the saved record nor the window seen by a later
\* referent of the same call.
C21_RequestUnchangedByPresentation ==
    [][lastOp'.op = "create_presentation" =>
          \A id \in DOMAIN store :
              store'[id].presentation_request = store[id].presentation_request]_vars

\* the ids the ledger is asked for by the calls `call` of a trace
Fetched(trace, call) == { trace[i].id : i \in { j \in DOMAIN trace : trace[j].call = call } }

\* no two calls `call` of the trace ask for the same id
FetchedOnce(trace, call) ==
    \A i, j \in DOMAIN trace :
        (i < j /\ trace[i].call = call /\ trace[j].call = call) => trace[i].id # trace[j].id

\* C22: one create_presentation or verify_presentation call asks the ledger
\* at most once for each schema id and at most once for each credential
\* definition id, also when several credentials or identifiers share the id;
\* and a call that completes has itself fetched every id it uses, whatever
\* earlier calls fetched.
C22_OneFetchPerIdPerCall ==
    lastOp.op \in {"create_presentation", "verify_presentation"} =>
        /\ FetchedOnce(lastOp.trace, "get_schema")
        /\ FetchedOnce(lastOp.trace, "get_credential_definition")
        /\ (lastOp.result = "ok" /\ lastOp.op = "verify_presentation") =>
              \A i \in DOMAIN store[lastOp.rid].presentation.identifiers :
                  LET identifier == store[lastOp.rid].presentation.identifiers[i]
                  IN  /\ identifier.schema_id \in Fetched(lastOp.trace, "get_schema")
                      /\ identifier.cred_def_id
                            \in Fetched(lastOp.trace, "get_credential_definition")
        /\ (lastOp.result = "ok" /\ lastOp.op = "create_presentation") =>
              \A i \in DOMAIN lastOp.input.referents :
                  LET cred == Wallet[lastOp.input.referents[i].cred_id]
                  IN  /\ cred.schema_id \in Fetched(lastOp.trace, "get_schema")
                      /\ cred.cred_def_id
                            \in Fetched(lastOp.trace, "get_credential_definition")

\* a referent left out of revocation processing: its credential has no
\* revocation registry, or neither the referent nor the request has a
\* non-revocation window
Skipped(op, i) ==
    \/ Wallet[op.input.referents[i].cred_id].rev_reg_id = NoReg
    \/ ~op.input.referents[i].non_revoked.present /\ ~op.input.non_revoked.present

\* the registries of the referents that are not left out
ProcessedRegistries(op) ==
    { Wallet[op.input.referents[i].cred_id].rev_reg_id :
        i \in { k \in DOMAIN op.input.referents : ~Skipped(op, k) } }

\* every delta fetch, tails retrieval and revocation state of the call
\* belongs to a referent that is not left out
OnlyProcessedRegistries(op) ==
    /\ \A j \in DOMAIN op.trace :
          op.trace[j].call \in {"get_revoc_reg_delta", "retrieve_tails",
                                "create_revocation_state"}
            => op.trace[j].id \in ProcessedRegistries(op)
    /\ \A s \in op.input.revocation_states : s.rev_reg_id \in ProcessedRegistries(op)

\* C23: in create_presentation a referent whose credential has no
\* revocation registry, or that has neither its own nor a request-level
\* non-revocation window, causes no delta fetch, no tails retrieval and no
\* revocation state, and raises no error: when no collaborator fails the
\* call completes and the proof is built with the revocation states of the
\* other referents only.
C23_SkippedReferentsAreHarmless ==
    ( /\ lastOp.op = "create_presentation"
      /\ FailedCalls(lastOp) = {}
      /\ \E i \in DOMAIN lastOp.input.referents : Skipped(lastOp, i) ) =>
        /\ lastOp.result = "ok"
        /\ OnlyProcessedRegistries(lastOp)

\* the last call `call` on registry reg before position j of the trace, or 0
LastBefore(trace, j, call, reg) ==
    LET before == { k \in 1..(j - 1) : trace[k].call = call /\ trace[k].id = reg }
    IN  IF before = {} THEN 0 ELSE CHOOSE k \in before : \A m \in before : m <= k

\* C24: in create_presentation the tails of a registry are retrieved only
\* right after the presence check answered that they are absent; every
\* creation of a revocation state for a registry comes after a presence
\* check of that registry, with the tails present or just retrieved; and
\* the tails of a registry are retrieved at most once in one call.
C24_TailsOnFirstUseOnly ==
    lastOp.op = "create_presentation" =>
        LET trace == lastOp.trace
        IN  /\ \A j \in DOMAIN trace :
                  trace[j].call = "retrieve_tails" =>
                      /\ j > 1
                      /\ trace[j - 1].call = "has_local_tail_file"
                      /\ trace[j - 1].id = trace[j].id
                      /\ trace[j - 1].arg = "absent"
            /\ \A j \in DOMAIN trace :
                  trace[j].call = "create_revocation_state" =>
                      LET k == LastBefore(trace, j, "has_local_tail_file", trace[j].id)
                      IN  /\ k > 0
                          /\ \/ trace[k].arg = "present" /\ k = j - 1
                             \/ /\ trace[k].arg = "absent"
                                /\ k = j - 2
                                /\ trace[j - 1].call = "retrieve_tails"
                                /\ trace[j - 1].id = trace[j].id
                                /\ trace[j - 1].ok
            /\ \A reg \in {"R1", "R2"} :
                  Cardinality({ j \in DOMAIN trace :
                      trace[j].call = "retrieve_tails" /\ trace[j].id = reg }) <= 1

\* a call on two registries: the tails of R1 are on disk and are not
\* retrieved, those of R2 are retrieved once, and both states are created
C24_Witness ==
    /\ lastOp.op = "create_presentation"
    /\ lastOp.result = "ok"
    /\ \E j \in DOMAIN lastOp.trace :
          /\ lastOp.trace[j].call = "has_local_tail_file"
          /\ lastOp.trace[j].id = "R1"
          /\ lastOp.trace[j].arg = "present"
    /\ CallsOf(lastOp, "retrieve_tails") # {}
    /\ \A j \in CallsOf(lastOp, "retrieve_tails") : lastOp.trace[j].id = "R2"
    /\ Cardinality(CallsOf(lastOp, "create_revocation_state")) = 2
    /\ tails = {"R1", "R2"}

\* C25: in a completed create_presentation, every requested referent whose
\* credential has a revocation registry and a non-revocation window in
\* force has, among the revocation states given to the holder, a state
\* created with that credential's cred_rev_id from a delta fetched for that
\* credential's registry.
C25_StateForEachCredential ==
    (lastOp.op = "create_presentation" /\ lastOp.result = "ok") =>
        \A i \in Revocable(lastOp) :
            LET cred == Wallet[lastOp.input.referents[i].cred_id]
            IN  /\ \E s \in lastOp.input.revocation_states :
                      /\ s.rev_reg_id = cred.rev_reg_id
                      /\ s.cred_rev_id = cred.cred_rev_id
                /\ \E j \in CallsOf(lastOp, "get_revoc_reg_delta") :
                      lastOp.trace[j].id = cred.rev_reg_id
                /\ \E j \in CallsOf(lastOp, "create_revocation_state") :
                      /\ lastOp.trace[j].id = cred.rev_reg_id
                      /\ lastOp.trace[j].arg = cred.cred_rev_id

\* the states of each role's path
ProverStates ==
    {STATE_PROPOSAL_SENT, STATE_REQUEST_RECEIVED, STATE_PRESENTATION_SENT,
     STATE_PRESENTATION_ACKED}

VerifierStates ==
    {STATE_PROPOSAL_RECEIVED, STATE_REQUEST_SENT, STATE_PRESENTATION_RECEIVED,
     STATE_VERIFIED}

\* C26: the state of every stored record belongs to the path of its role: a
\* PROVER record is in PROPOSAL_SENT, REQUEST_RECEIVED, PRESENTATION_SENT or
\* PRESENTATION_ACKED, a VERIFIER record in PROPOSAL_RECEIVED, REQUEST_SENT,
\* PRESENTATION_RECEIVED or VERIFIED; no inbound presentation or ack moves a
\* record into a state of the other role.
C26_StateOnRolePath ==
    \A i \in DOMAIN store :
        /\ store[i].role = ROLE_PROVER => store[i].state \in ProverStates
        /\ store[i].role = ROLE_VERIFIER => store[i].state \in VerifierStates

====
